---- MODULE Spec2Model ----
(***************************************************************************)
(* mcphost: the turn orchestrator (runPrompt, runPromptNonInteractive),    *)
(* its two session drivers (runMCPHost.hostLoop, runServer) and the        *)
(* transcript pruning function (pruneMessages).                            *)
(*                                                                         *)
(* Strings are modelled as sequences of tokens, so that strings.Split,     *)
(* strings.TrimSpace and fmt.Sprintf are computed and not assumed.         *)
(***************************************************************************)
EXTENDS Integers, Sequences, FiniteSets, TLC

VARIABLES
    mode,            \* "interactive", "server" (one request at a time),
                     \* "concurrent" (overlapping requests), "prune"
    messageWindow,   \* the --message-window flag
    messages,        \* the transcript ([]history.HistoryMessage)
    pruned,          \* the last call of pruneMessages on its own: input and output
    pc,              \* per handler: position in the code
    prompt,          \* per handler: the prompt argument of the current call
    retries,         \* per handler: runPrompt's local retries
    backoff,         \* per handler: runPrompt's local backoff, in seconds
    message,         \* per handler: the provider's reply (llm.Message)
    idx,             \* per handler: index of the tool call the loop is at
    messageContent,  \* per handler: local messageContent
    toolResults,     \* per handler: local toolResults
    ret,             \* per handler: what the handler returned
    round,           \* per handler: depth of the recursion in the current turn
    log,             \* per handler: what the current round did (calls, sleeps, tool calls)
    loc,             \* per handler (server): the slice header read by an append or prune
    pend,            \* per handler (server): turns still to append in this round
    nextID,          \* next tool call ID the provider assigns
    turns,           \* number of prompts or requests accepted so far
    cancelled,       \* whether the session's context (runMCPHost's ctx) is done
    allTools         \* the tool catalog given to the provider (qualified names)

vars == <<mode, messageWindow, messages, pruned, pc, prompt, retries, backoff,
          message, idx, messageContent, toolResults, ret, round, log, loc,
          pend, nextID, turns, cancelled, allTools>>

(***************************************************************************)
(* Bounds of the model.                                                    *)
(***************************************************************************)
MaxWindow == 3      \* messageWindow of a session ranges over 0..MaxWindow
MaxPruneWindow == 2 \* messageWindow given to pruneMessages on its own
MaxPruneLen == 3    \* turns of a transcript given to pruneMessages on its own
MaxSegs == 3        \* segments of such a transcript, all turns together
MaxPruneID == 1     \* tool call IDs in such a transcript
MaxTurns == 2       \* prompts (requests) of a session
MaxRounds == 2      \* provider rounds of one turn
MaxCalls == 2       \* tool calls of one provider reply
MaxIDs == 2         \* tool call IDs the provider hands out in a session

(***************************************************************************)
(* Program constants: part_000 lines 44-48, in seconds.                    *)
(***************************************************************************)
initialBackoff == 1
maxBackoff == 30
maxRetries == 5

(***************************************************************************)
(* history.ContentBlock and history.HistoryMessage.                        *)
(***************************************************************************)
ContentBlock(type, text, id, toolUseID, name, input, content) ==
    [type |-> type, text |-> text, id |-> id, toolUseID |-> toolUseID,
     name |-> name, input |-> input, content |-> content]

TextBlock(text) == ContentBlock("text", text, 0, 0, <<>>, "", <<>>)

ToolUseBlock(id, name, input) == ContentBlock("tool_use", <<>>, id, 0, name, input, <<>>)

ToolResultBlock(toolUseID, content, text) ==
    ContentBlock("tool_result", text, 0, toolUseID, <<>>, "", content)

HistoryMessage(role, content) == [role |-> role, content |-> content]

\* an item of mcp.CallToolResult.Content: mcp.TextContent or another kind
TextContent(text) == [type |-> "text", text |-> text]
ImageContent == [type |-> "image", text |-> <<>>]

(***************************************************************************)
(* pruneMessages, part_000 lines 166-221.                                  *)
(***************************************************************************)
\* all segments of a sequence of turns, as a set
BlocksOf(msgs) ==
    UNION {{msgs[i].content[j] : j \in DOMAIN msgs[i].content} : i \in DOMAIN msgs}

\* first pass
CollectToolUseIds(msgs) == {b.id : b \in {c \in BlocksOf(msgs) : c.type = "tool_use"}}

CollectToolResultIds(msgs) ==
    {b.toolUseID : b \in {c \in BlocksOf(msgs) : c.type = "tool_result"}}

\* second pass, per block
keepBlock_results(block, toolUseIds, toolResultIds) ==
    IF block.type = "tool_use" THEN block.id \in toolResultIds ELSE TRUE

keepBlock(block, toolUseIds, toolResultIds) ==
    IF block.type = "tool_use" THEN block.id \in toolResultIds
    ELSE IF block.type = "tool_result" THEN block.toolUseID \in toolUseIds
    ELSE TRUE

PrunedBlocks(msg, toolUseIds, toolResultIds) ==
    LET keep(b) == keepBlock(b, toolUseIds, toolResultIds)
    IN  SelectSeq(msg.content, keep)

hasTextBlock(msg) == \E j \in DOMAIN msg.content : msg.content[j].type = "text"

\* a rule that keeps every turn that is not an assistant turn
includeMessage_keepOthers(msg, prunedBlocks) ==
    \/ (Len(prunedBlocks) > 0 /\ msg.role = "assistant")
    \/ msg.role # "assistant"

\* lines 205-217: whether the turn goes to prunedMessages
includeMessage(msg, prunedBlocks) ==
    /\ \/ (Len(prunedBlocks) > 0 /\ msg.role = "assistant")
       \/ msg.role # "assistant"
    /\ (Len(prunedBlocks) > 0 \/ hasTextBlock(msg))

RECURSIVE FilterMessages(_, _, _)
FilterMessages(msgs, toolUseIds, toolResultIds) ==
    IF msgs = <<>> THEN <<>>
    ELSE LET msg == Head(msgs)
             pb == PrunedBlocks(msg, toolUseIds, toolResultIds)
             rest == FilterMessages(Tail(msgs), toolUseIds, toolResultIds)
         IN  IF includeMessage(msg, pb)
             THEN <<HistoryMessage(msg.role, pb)>> \o rest
             ELSE rest

\* a window of the oldest turns
Window_first(msgs, w) == SubSeq(msgs, 1, w)

\* a window that cuts the oldest turn only
Window_dropOne(msgs, w) == Tail(msgs)

\* line 172: messages[len(messages)-messageWindow:]
Window(msgs, w) == SubSeq(msgs, Len(msgs) - w + 1, Len(msgs))

\* a threshold that lets a transcript of exactly w turns through to the filter
pruneMessages_strict(msgs, w) ==
    IF Len(msgs) < w THEN msgs
    ELSE LET kept == Window(msgs, w)
         IN  FilterMessages(kept, CollectToolUseIds(kept), CollectToolResultIds(kept))

pruneMessages(msgs, w) ==
    IF Len(msgs) <= w THEN msgs
    ELSE LET kept == Window(msgs, w)
         IN  FilterMessages(kept, CollectToolUseIds(kept), CollectToolResultIds(kept))

(***************************************************************************)
(* String helpers: strings.Split, strings.TrimSpace, fmt.Sprintf.          *)
(***************************************************************************)
IndexOf(s, tok) ==
    IF \E i \in DOMAIN s : s[i] = tok
    THEN CHOOSE i \in DOMAIN s : s[i] = tok /\ \A j \in 1..(i - 1) : s[j] # tok
    ELSE 0

\* a Split that never finds the separator
Split_never(s, sep) == <<s>>

RECURSIVE Split(_, _)
Split(s, sep) ==
    LET k == IndexOf(s, sep)
    IN  IF k = 0 THEN <<s>>
        ELSE <<SubSeq(s, 1, k - 1)>> \o Split(SubSeq(s, k + 1, Len(s)), sep)

RECURSIVE TrimLeft(_)
TrimLeft(s) == IF s # <<>> /\ Head(s) = " " THEN TrimLeft(Tail(s)) ELSE s

RECURSIVE TrimRight(_)
TrimRight(s) ==
    IF s # <<>> /\ s[Len(s)] = " " THEN TrimRight(SubSeq(s, 1, Len(s) - 1)) ELSE s

TrimSpace(s) == TrimRight(TrimLeft(s))

\* lines 439-447: resultText += fmt.Sprintf("%v ", contentMap.Text) for text items
RECURSIVE ExtractText(_)
ExtractText(content) ==
    IF content = <<>> THEN <<>>
    ELSE (IF Head(content).type = "text" THEN Head(content).text \o <<" ">> ELSE <<>>)
         \o ExtractText(Tail(content))

\* lines 407-411: fmt.Sprintf("Error calling tool %s: %v", toolName, err)
ErrMsg(toolName, err) == <<"Error calling tool ">> \o toolName \o <<": ">> \o err

(***************************************************************************)
(* The environment: prompts, provider replies, tool servers.               *)
(***************************************************************************)
\* handler 1 is the interactive session; in server mode every request has its
\* goroutine, and two requests arrive
Handlers == {1, 2}

InServer(m) == m \in {"server", "concurrent"}

Sessions == {"interactive", "server", "concurrent"}

Prompts == {<<"hi">>}

ReplyTexts == {<<>>, <<"ok">>}

\* mcpClients: the servers of the configuration
mcpClients == {<<"s">>}

\* what a provider may ask for: a name and an argument object
ToolCallShapes ==
    {[name |-> <<"s", "__", "t">>, args |-> "object"],
     [name |-> <<"notaqualifiedname">>, args |-> "object"],
     [name |-> <<"x", "__", "t">>, args |-> "object"],
     [name |-> <<"s", "__", "t">>, args |-> "unsupported"]}

\* what CallTool may return: an error, a result without content, a result
ToolOutcomes ==
    {[err |-> <<"network">>, nilContent |-> FALSE, content |-> <<>>],
     [err |-> <<>>, nilContent |-> TRUE, content |-> <<>>],
     [err |-> <<>>, nilContent |-> FALSE,
      content |-> <<TextContent(<<"a", " ">>), ImageContent>>]}

ShapeSeqs(n) == UNION {[1..k -> ToolCallShapes] : k \in 0..n}

\* the provider numbers its tool calls from nextID on
ToolCallsOf(shapes, first) ==
    [i \in DOMAIN shapes |->
        [id |-> first + i - 1, name |-> shapes[i].name, args |-> shapes[i].args]]

\* the errors of a call made under a context that is done
ContextCanceled == <<"context canceled">>

CanceledError == [class |-> "canceled", text |-> ContextCanceled]

CanceledOutcome == [err |-> ContextCanceled, nilContent |-> FALSE, content |-> <<>>]

\* the context each call is given: CreateMessage gets the handler's ctx (line
\* 283, server.go line 75), CallTool gets context.Background() (line 397,
\* server.go line 148)
createMessageContext == "session"

callToolContext == "background"

\* mcpToolsToAnthropicTools: the catalog entries of a server
ServerTools(server) == {server \o <<"__", "t">>}

NoMessage == [text |-> <<>>, toolCalls |-> <<>>, role |-> ""]

NoRet == [err |-> <<>>, text |-> <<>>]

\* the errors CreateMessage may return: the provider is overloaded, or anything else
ProviderErrors ==
    {[class |-> "overloaded", text |-> <<"529 ", "overloaded_error">>],
     [class |-> "fatal", text |-> <<"401 ", "authentication_error">>]}

\* line 333
RendererErr == <<"error updating renderer: ", "style">>

\* json.Marshal of the arguments and json.Unmarshal of its output
jsonMarshal(args) == IF args = "object" THEN "{}" ELSE ""
jsonUnmarshalOk(input) == input = "{}"

Event(ev, res, arg) == [ev |-> ev, res |-> res, arg |-> arg]

(***************************************************************************)
(* Initial values of the handlers' locals.                                 *)
(***************************************************************************)
HandlersInit(pcs) ==
    /\ pc = pcs
    /\ prompt = [h \in Handlers |-> <<>>]
    /\ retries = [h \in Handlers |-> 0]
    /\ backoff = [h \in Handlers |-> initialBackoff]
    /\ message = [h \in Handlers |-> NoMessage]
    /\ idx = [h \in Handlers |-> 0]
    /\ messageContent = [h \in Handlers |-> <<>>]
    /\ toolResults = [h \in Handlers |-> <<>>]
    /\ ret = [h \in Handlers |-> NoRet]
    /\ round = [h \in Handlers |-> 0]
    /\ log = [h \in Handlers |-> <<>>]
    /\ loc = [h \in Handlers |-> <<>>]
    /\ pend = [h \in Handlers |-> <<>>]
    /\ nextID = 1
    /\ turns = 0

handlerVars == <<pc, prompt, retries, backoff, message, idx, messageContent,
                 toolResults, ret, round, log, loc, pend, nextID, turns>>

NotPruned == [done |-> FALSE, input |-> <<>>, out |-> <<>>]

(***************************************************************************)
(* pruneMessages on its own: any transcript within the bounds, any window. *)
(***************************************************************************)
Roles == {"user", "assistant", "tool"}

PruneBlocks ==
    {TextBlock(<<"hi">>)}
    \cup {ToolUseBlock(i, <<"s", "__", "t">>, "{}") : i \in 1..MaxPruneID}
    \cup {ToolResultBlock(i, <<>>, <<>>) : i \in 1..MaxPruneID}

RECURSIVE SegCount(_)
SegCount(msgs) ==
    IF msgs = <<>> THEN 0 ELSE Len(Head(msgs).content) + SegCount(Tail(msgs))

InitPrune ==
    /\ mode = "prune"
    /\ cancelled = FALSE
    /\ allTools = {}
    /\ messageWindow = 0
    /\ messages = <<>>
    /\ pruned = NotPruned
    /\ HandlersInit([h \in Handlers |-> "off"])

PruneAddMessage ==
    /\ mode = "prune" /\ ~pruned.done
    /\ Len(messages) < MaxPruneLen
    /\ \E r \in Roles : messages' = Append(messages, HistoryMessage(r, <<>>))
    /\ UNCHANGED <<mode, messageWindow, cancelled, allTools, pruned, handlerVars>>

\* the tool call IDs a transcript mentions
UsedIds(msgs) == CollectToolUseIds(msgs) \cup CollectToolResultIds(msgs)

\* IDs are only names to pruneMessages (it compares them for equality), so a
\* transcript takes them in order: ID i + 1 appears after ID i has
NextIdInOrder(msgs, b) ==
    IF b.type = "text" THEN TRUE
    ELSE \A j \in 1..(b.id + b.toolUseID - 1) : j \in UsedIds(msgs)

PruneAddBlock ==
    /\ mode = "prune" /\ ~pruned.done
    /\ messages # <<>>
    /\ SegCount(messages) < MaxSegs
    /\ \E b \in PruneBlocks :
         /\ NextIdInOrder(messages, b)
         /\ messages' = [messages EXCEPT ![Len(messages)].content = Append(@, b)]
    /\ UNCHANGED <<mode, messageWindow, cancelled, allTools, pruned, handlerVars>>

\* pruneMessages is called on the transcript, with the window set to any value
PruneApply ==
    /\ mode = "prune" /\ ~pruned.done
    /\ \E w \in 0..MaxPruneWindow :
         /\ messageWindow' = w
         /\ pruned' = [done |-> TRUE, input |-> messages,
                       out |-> pruneMessages(messages, w)]
    /\ UNCHANGED <<mode, cancelled, allTools, messages, handlerVars>>

NextPrune == PruneAddMessage \/ PruneAddBlock \/ PruneApply

SpecPrune == InitPrune /\ [][NextPrune]_vars

\* no tool_use without a tool_result of its ID, no tool_result without a tool_use
Paired(msgs) ==
    /\ CollectToolUseIds(msgs) \subseteq CollectToolResultIds(msgs)
    /\ CollectToolResultIds(msgs) \subseteq CollectToolUseIds(msgs)

\* C1 as stated: for every transcript and every window, what pruneMessages
\* returns has no tool_use without its tool_result and no tool_result without
\* its tool_use.
C1_PairedForAll == pruned.done => Paired(pruned.out)

\* C1 as amended: for every transcript of more than messageWindow turns, what
\* pruneMessages returns has no tool_use without its tool_result and no
\* tool_result without its tool_use; a transcript of at most messageWindow
\* turns is returned as it is.
C1_PairedAboveWindow ==
    pruned.done =>
        IF Len(pruned.input) > messageWindow
        THEN Paired(pruned.out)
        ELSE pruned.out = pruned.input

\* the window splits a pair: the tool_use is cut off, its tool_result is inside
C1_Witness ==
    /\ pruned.done
    /\ Len(pruned.input) > messageWindow
    /\ \E i \in CollectToolResultIds(Window(pruned.input, messageWindow)) :
         /\ i \in CollectToolUseIds(pruned.input)
         /\ i \notin CollectToolUseIds(Window(pruned.input, messageWindow))
    /\ pruned.out # <<>>

(***************************************************************************)
(* The turn handlers.  runPrompt (part_000 lines 246-474) runs as handler  *)
(* 1 in interactive mode; runPromptNonInteractive (server.go lines 56-218) *)
(* runs as any handler in server mode.  The code of the tool loop is the   *)
(* same in both.                                                           *)
(***************************************************************************)
Logged(h, evs) == log' = [log EXCEPT ![h] = @ \o evs]

\* entry of runPrompt / runPromptNonInteractive, first call or recursive one
EnterRound(h, p, r) ==
    /\ prompt' = [prompt EXCEPT ![h] = p]
    /\ retries' = [retries EXCEPT ![h] = 0]
    /\ backoff' = [backoff EXCEPT ![h] = initialBackoff]
    /\ message' = [message EXCEPT ![h] = NoMessage]
    /\ idx' = [idx EXCEPT ![h] = 0]
    /\ messageContent' = [messageContent EXCEPT ![h] = <<>>]
    /\ toolResults' = [toolResults EXCEPT ![h] = <<>>]
    /\ ret' = [ret EXCEPT ![h] = NoRet]
    /\ round' = [round EXCEPT ![h] = r]
    /\ log' = [log EXCEPT ![h] = <<>>]
    /\ pc' = [pc EXCEPT ![h] = "call"]

\* a return statement of the handler
Return(h, err, text) ==
    /\ ret' = [ret EXCEPT ![h] = [err |-> err, text |-> text]]
    /\ pc' = [pc EXCEPT ![h] = "ret"]

\* the driver has consumed the return value: the handler's locals are gone
LeaveHandler(h, p) ==
    /\ pc' = [pc EXCEPT ![h] = p]
    /\ prompt' = [prompt EXCEPT ![h] = <<>>]
    /\ retries' = [retries EXCEPT ![h] = 0]
    /\ backoff' = [backoff EXCEPT ![h] = initialBackoff]
    /\ message' = [message EXCEPT ![h] = NoMessage]
    /\ idx' = [idx EXCEPT ![h] = 0]
    /\ messageContent' = [messageContent EXCEPT ![h] = <<>>]
    /\ toolResults' = [toolResults EXCEPT ![h] = <<>>]
    /\ round' = [round EXCEPT ![h] = 0]
    /\ log' = [log EXCEPT ![h] = <<>>]

\* a handler that does not append the user turn
WithUserTurn_none(msgs, p) == msgs

\* lines 255-267: the user turn of a non-empty prompt
WithUserTurn(msgs, p) ==
    IF p # <<>> THEN Append(msgs, HistoryMessage("user", <<TextBlock(p)>>)) ELSE msgs

\* hostLoop, lines 565-609: a prompt is read, the transcript pruned, runPrompt called
HostLoopPrompt ==
    /\ mode = "interactive" /\ pc[1] = "prompt"
    /\ turns < MaxTurns
    /\ \E p \in Prompts :
         /\ messages' = WithUserTurn(
                IF Len(messages) > 0 THEN pruneMessages(messages, messageWindow)
                ELSE messages, p)
         /\ EnterRound(1, p, 1)
    /\ turns' = turns + 1
    /\ UNCHANGED <<mode, messageWindow, cancelled, allTools, pruned, loc, pend, nextID>>

\* hostLoop, lines 575-582: the form is aborted
HostLoopAbort ==
    /\ mode = "interactive" /\ pc[1] = "prompt"
    /\ pc' = [pc EXCEPT ![1] = "exit"]
    /\ UNCHANGED <<mode, messageWindow, cancelled, allTools, messages, pruned, prompt,
                   retries, backoff, message, idx, messageContent, toolResults, ret,
                   round, log, loc, pend, nextID, turns>>

\* hostLoop, lines 605-608: runPrompt has returned
HostLoopReturn ==
    /\ mode = "interactive" /\ pc[1] = "ret"
    /\ LeaveHandler(1, IF ret[1].err # <<>> THEN "exit" ELSE "prompt")
    /\ UNCHANGED <<mode, messageWindow, cancelled, allTools, messages, pruned, ret,
                   loc, pend, nextID, turns>>

\* lines 306-309
nextBackoff_plain(b) == b * 2 + 1

nextBackoff(b) == IF b * 2 > maxBackoff THEN maxBackoff ELSE b * 2

\* line 295
retriesExhausted_late(r) == r > maxRetries

\* a loop that never gives up
retriesExhausted_never(r) == FALSE

retriesExhausted(r) == r >= maxRetries

\* line 294: strings.Contains(err.Error(), "overloaded_error")
isOverloaded_any(e) == TRUE

isOverloaded(e) == \E i \in DOMAIN e : e[i] = "overloaded_error"

\* whether the handler looks at the error at all: runPrompt does (lines 292-312),
\* runPromptNonInteractive returns any error as it is (server.go lines 81-83)
retriesOverload(m) == m = "interactive"

\* lines 296-298
OverloadedMsg ==
    <<"claude is currently overloaded. please wait a few minutes and try again">>

\* whether a call under context c finds it done
ContextDone(c) == c = "session" /\ cancelled

\* what CreateMessage may fail with, and what CallTool may return
CreateMessageErrors ==
    IF ContextDone(createMessageContext) THEN {CanceledError} ELSE ProviderErrors

CallToolOutcomes ==
    IF ContextDone(callToolContext) THEN {CanceledOutcome} ELSE ToolOutcomes

\* CreateMessage returns an error
ProviderFailed(h) ==
    /\ mode \in Sessions /\ pc[h] = "call"
    /\ \E e \in CreateMessageErrors :
         /\ Logged(h, <<Event("call", e.class, 0)>>
                \o IF retriesOverload(mode) /\ isOverloaded(e.text)
                      /\ ~retriesExhausted(retries[h])
                   THEN <<Event("sleep", "", backoff[h])>> ELSE <<>>)
         /\ IF retriesOverload(mode) /\ isOverloaded(e.text)
            THEN IF retriesExhausted(retries[h])
                 THEN /\ Return(h, OverloadedMsg, <<>>)
                      /\ UNCHANGED <<retries, backoff>>
                 ELSE \* time.Sleep(backoff) and the next iteration
                      /\ backoff' = [backoff EXCEPT ![h] = nextBackoff(@)]
                      /\ retries' = [retries EXCEPT ![h] = @ + 1]
                      /\ UNCHANGED <<pc, ret>>
            ELSE /\ Return(h, e.text, <<>>)
                 /\ UNCHANGED <<retries, backoff>>
    /\ UNCHANGED <<mode, messageWindow, cancelled, allTools, messages, pruned, prompt,
                   message, idx, messageContent, toolResults, round, loc, pend,
                   nextID, turns>>

\* lines 331-346 and server.go lines 95-100: the text segment of the reply
TextContentOf(text) == IF text # <<>> THEN <<TextBlock(text)>> ELSE <<>>

\* CreateMessage succeeds.  runPrompt: lines 316-346 (updateRenderer may fail);
\* runPromptNonInteractive: server.go lines 85-100 (a reply with text is returned
\* at once).
ProviderReplied(h) ==
    /\ mode \in Sessions /\ pc[h] = "call"
    /\ ~ContextDone(createMessageContext)
    /\ \E text \in ReplyTexts, shapes \in ShapeSeqs(MaxCalls), rendererOk \in BOOLEAN :
         /\ round[h] = MaxRounds => shapes = <<>>
         /\ nextID + Len(shapes) - 1 <= MaxIDs
         /\ rendererOk \/ (mode = "interactive" /\ text # <<>>)
         /\ message' = [message EXCEPT ![h] =
                [text |-> text, toolCalls |-> ToolCallsOf(shapes, nextID),
                 role |-> "assistant"]]
         /\ nextID' = nextID + Len(shapes)
         /\ Logged(h, <<Event("call", "ok", Len(shapes))>>)
         /\ IF mode = "interactive" /\ ~rendererOk
            THEN /\ Return(h, RendererErr, <<>>)
                 /\ UNCHANGED <<idx, messageContent, toolResults>>
            ELSE IF InServer(mode) /\ text # <<>>
            THEN /\ Return(h, <<>>, text)
                 /\ UNCHANGED <<idx, messageContent, toolResults>>
            ELSE /\ messageContent' = [messageContent EXCEPT ![h] = TextContentOf(text)]
                 /\ toolResults' = [toolResults EXCEPT ![h] = <<>>]
                 /\ idx' = [idx EXCEPT ![h] = 1]
                 /\ pc' = [pc EXCEPT ![h] = "tools"]
                 /\ UNCHANGED ret
    /\ UNCHANGED <<mode, messageWindow, cancelled, allTools, messages, pruned, prompt,
                   retries, backoff, round, loc, pend, turns>>

dispatchOf_anyServer(name, input) ==
    LET parts == Split(name, "__")
    IN  IF Len(parts) # 2 THEN "malformed"
        ELSE IF ~jsonUnmarshalOk(input) THEN "badargs"
        ELSE "call"

\* lines 369-389: what the loop does with a tool call before calling the tool
dispatchOf(name, input) ==
    LET parts == Split(name, "__")
    IN  IF Len(parts) # 2 THEN "malformed"
        ELSE IF parts[1] \notin mcpClients THEN "noserver"
        ELSE IF ~jsonUnmarshalOk(input) THEN "badargs"
        ELSE "call"

toolResultOf_silent(id, toolName, outcome) ==
    IF outcome.err # <<>> \/ outcome.nilContent THEN <<>>
    ELSE <<ToolResultBlock(id, outcome.content, TrimSpace(ExtractText(outcome.content)))>>

toolResultOf_otherID(id, toolName, outcome) ==
    IF outcome.nilContent THEN <<>>
    ELSE <<ToolResultBlock(id + 1, outcome.content, TrimSpace(ExtractText(outcome.content)))>>

\* lines 406-453: the result segments (none or one) of a tool call that was made.
\* The error text is a text item of the segment's Content; its Text stays empty.
toolResultOf(id, toolName, outcome) ==
    IF outcome.err # <<>>
    THEN <<ToolResultBlock(id, <<TextContent(ErrMsg(toolName, outcome.err))>>, <<>>)>>
    ELSE IF outcome.nilContent THEN <<>>
    ELSE <<ToolResultBlock(id, outcome.content, TrimSpace(ExtractText(outcome.content)))>>

\* one iteration of the loop over message.GetToolCalls(): lines 349-454,
\* server.go lines 103-200
ToolLoopStep(h) ==
    /\ mode \in Sessions /\ pc[h] = "tools"
    /\ idx[h] <= Len(message[h].toolCalls)
    /\ LET toolCall == message[h].toolCalls[idx[h]]
           input == jsonMarshal(toolCall.args)
           parts == Split(toolCall.name, "__")
       IN  /\ messageContent' = [messageContent EXCEPT ![h] =
                  Append(@, ToolUseBlock(toolCall.id, toolCall.name, input))]
           /\ IF dispatchOf(toolCall.name, input) = "call"
              THEN \E outcome \in CallToolOutcomes :
                     /\ toolResults' = [toolResults EXCEPT ![h] =
                            @ \o toolResultOf(toolCall.id, parts[2], outcome)]
                     /\ Logged(h, <<Event("tool",
                            IF outcome.err # <<>> THEN "error" ELSE "ok", toolCall.id)>>)
              ELSE /\ Logged(h, <<Event("skip", dispatchOf(toolCall.name, input),
                                        toolCall.id)>>)
                   /\ UNCHANGED toolResults
    /\ idx' = [idx EXCEPT ![h] = @ + 1]
    /\ UNCHANGED <<mode, messageWindow, cancelled, allTools, messages, pruned, pc,
                   prompt, retries, backoff, message, ret, round, loc, pend, nextID,
                   turns>>

\* lines 456-467, server.go lines 202-213: the turns a round appends
RECURSIVE ToolTurns(_)
ToolTurns(results) ==
    IF results = <<>> THEN <<>>
    ELSE <<HistoryMessage("tool", <<Head(results)>>)>> \o ToolTurns(Tail(results))

RoundTurns(role, content, results) ==
    <<HistoryMessage(role, content)>> \o ToolTurns(results)

\* lines 461, server.go line 207: the round is followed by another one
recurses_onCalls(msg, results) == Len(msg.toolCalls) > 0

recurses_always(msg, results) == TRUE

recurses(msg, results) == Len(results) > 0

\* runPrompt after the loop, lines 456-474
Finish ==
    /\ mode = "interactive" /\ pc[1] = "tools"
    /\ idx[1] > Len(message[1].toolCalls)
    /\ messages' = messages \o RoundTurns(message[1].role, messageContent[1], toolResults[1])
    /\ IF recurses(message[1], toolResults[1])
       THEN EnterRound(1, <<>>, round[1] + 1)
       ELSE /\ Return(1, <<>>, <<>>)
            /\ UNCHANGED <<prompt, retries, backoff, message, idx, messageContent,
                           toolResults, round, log>>
    /\ UNCHANGED <<mode, messageWindow, cancelled, allTools, pruned, loc, pend,
                   nextID, turns>>

(***************************************************************************)
(* Server mode, server.go lines 26-54: one transcript, declared at line    *)
(* 31, for all requests; net/http runs each request on its own goroutine.  *)
(* An append or a prune of the shared slice is a read followed by a write. *)
(***************************************************************************)
\* lines 34-42: a request is decoded and the handler called
ServeRequest(h) ==
    /\ InServer(mode) /\ pc[h] = "idle"
    /\ mode = "server" => \A g \in Handlers \ {h} : pc[g] \in {"idle", "served"}
    /\ \E p \in Prompts : EnterRound(h, p, 1)
    /\ turns' = turns + 1
    /\ UNCHANGED <<mode, messageWindow, cancelled, allTools, messages, pruned, loc,
                   pend, nextID>>

\* lines 36-40: the body does not decode
ServeBadRequest(h) ==
    /\ InServer(mode) /\ pc[h] = "idle"
    /\ mode = "server" => \A g \in Handlers \ {h} : pc[g] \in {"idle", "served"}
    /\ turns' = turns + 1
    /\ pc' = [pc EXCEPT ![h] = "served"]
    /\ UNCHANGED <<mode, messageWindow, cancelled, allTools, messages, pruned, prompt,
                   retries, backoff, message, idx, messageContent, toolResults, ret,
                   round, log, loc, pend, nextID>>

\* runPromptNonInteractive after the loop, server.go lines 202-217
FinishServer(h) ==
    /\ InServer(mode) /\ pc[h] = "tools"
    /\ idx[h] > Len(message[h].toolCalls)
    /\ pend' = [pend EXCEPT ![h] =
           RoundTurns(message[h].role, messageContent[h], toolResults[h])]
    /\ pc' = [pc EXCEPT ![h] = "append"]
    /\ UNCHANGED <<mode, messageWindow, cancelled, allTools, messages, pruned, prompt,
                   retries, backoff, message, idx, messageContent, toolResults, ret,
                   round, log, loc, nextID, turns>>

\* *messages = append(*messages, ...): the read
AppendLoad(h) ==
    /\ InServer(mode) /\ pc[h] = "append"
    /\ loc' = [loc EXCEPT ![h] = messages]
    /\ pc' = [pc EXCEPT ![h] = "store"]
    /\ UNCHANGED <<mode, messageWindow, cancelled, allTools, messages, pruned, prompt,
                   retries, backoff, message, idx, messageContent, toolResults, ret,
                   round, log, pend, nextID, turns>>

\* *messages = append(*messages, ...): the write, then the next statement
AppendStore(h) ==
    /\ InServer(mode) /\ pc[h] = "store"
    /\ messages' = Append(loc[h], Head(pend[h]))
    /\ pend' = [pend EXCEPT ![h] = Tail(@)]
    /\ loc' = [loc EXCEPT ![h] = <<>>]
    /\ IF Tail(pend[h]) # <<>>
       THEN /\ pc' = [pc EXCEPT ![h] = "append"]
            /\ UNCHANGED <<prompt, retries, backoff, message, idx, messageContent,
                           toolResults, ret, round, log>>
       ELSE IF recurses(message[h], toolResults[h])
       THEN EnterRound(h, <<>>, round[h] + 1)
       ELSE /\ Return(h, <<>>, <<>>)
            /\ UNCHANGED <<prompt, retries, backoff, message, idx, messageContent,
                           toolResults, round, log>>
    /\ UNCHANGED <<mode, messageWindow, cancelled, allTools, pruned, nextID, turns>>

\* lines 43-51: the handler has returned; an error is answered with status 500,
\* a non-empty message is followed by messages = pruneMessages(messages): the read
ServeReturn(h) ==
    /\ InServer(mode) /\ pc[h] = "ret"
    /\ IF ret[h].err = <<>> /\ Len(ret[h].text) > 0
       THEN /\ loc' = [loc EXCEPT ![h] = messages]
            /\ LeaveHandler(h, "prune")
       ELSE /\ LeaveHandler(h, "served")
            /\ UNCHANGED loc
    /\ UNCHANGED <<mode, messageWindow, cancelled, allTools, messages, pruned, ret,
                   pend, nextID, turns>>

\* line 49: messages = pruneMessages(messages): the write; line 51: the response
ServePrune(h) ==
    /\ InServer(mode) /\ pc[h] = "prune"
    /\ messages' = pruneMessages(loc[h], messageWindow)
    /\ loc' = [loc EXCEPT ![h] = <<>>]
    /\ pc' = [pc EXCEPT ![h] = "served"]
    /\ UNCHANGED <<mode, messageWindow, cancelled, allTools, pruned, prompt, retries,
                   backoff, message, idx, messageContent, toolResults, ret, round,
                   log, pend, nextID, turns>>

(***************************************************************************)
(* The session: interactive (hostLoop) or server (runServer).              *)
(***************************************************************************)
\* the session's context is cancelled
Cancel ==
    /\ mode \in Sessions /\ ~cancelled
    /\ cancelled' = TRUE
    /\ UNCHANGED <<mode, messageWindow, messages, pruned, allTools, handlerVars>>

\* runMCPHost lines 529-555: the catalog is made of the tools of the servers
\* whose ListTools succeeded; mcpClients stays as it is
Catalog(listed) == UNION {ServerTools(server) : server \in listed}

SessionInit ==
    /\ messageWindow \in 0..MaxWindow
    /\ cancelled = FALSE
    /\ messages = <<>>
    /\ pruned = NotPruned
    /\ HandlersInit([h \in Handlers |->
           IF InServer(mode) THEN "idle" ELSE IF h = 1 THEN "prompt" ELSE "off"])

\* every server has listed its tools
Init ==
    /\ mode \in {"interactive", "server"}
    /\ allTools = Catalog(mcpClients)
    /\ SessionInit

InitServer ==
    /\ mode = "concurrent"
    /\ allTools = Catalog(mcpClients)
    /\ SessionInit

\* ListTools of any server may have failed
InitStartup ==
    /\ mode \in {"interactive", "server"}
    /\ \E listed \in SUBSET mcpClients : allTools = Catalog(listed)
    /\ SessionInit

InitCancel ==
    /\ mode = "interactive"
    /\ allTools = Catalog(mcpClients)
    /\ SessionInit

\* the interactive session run with --message-window 0, so that every turn
\* starts from an empty transcript: the steps of a turn do not read the window
InitLive ==
    /\ InitCancel
    /\ messageWindow = 0

ServerStep(h) ==
    \/ ProviderFailed(h)
    \/ ProviderReplied(h)
    \/ ToolLoopStep(h)
    \/ ServeRequest(h)
    \/ ServeBadRequest(h)
    \/ FinishServer(h)
    \/ AppendLoad(h)
    \/ AppendStore(h)
    \/ ServeReturn(h)
    \/ ServePrune(h)

Next ==
    \/ HostLoopPrompt
    \/ HostLoopAbort
    \/ HostLoopReturn
    \/ Finish
    \/ \E h \in Handlers : ServerStep(h)

NextServer == \E h \in Handlers : ServerStep(h)

\* the interactive session, with a context that may be cancelled at any time
NextCancel ==
    \/ Cancel
    \/ HostLoopPrompt
    \/ HostLoopAbort
    \/ HostLoopReturn
    \/ ProviderFailed(1)
    \/ ProviderReplied(1)
    \/ ToolLoopStep(1)
    \/ Finish

\* the interactive session, no cancellation
NextLive ==
    \/ HostLoopPrompt
    \/ HostLoopAbort
    \/ HostLoopReturn
    \/ ProviderFailed(1)
    \/ ProviderReplied(1)
    \/ ToolLoopStep(1)
    \/ Finish

\* the interactive session, and the server with one request at a time; the
\* context is not cancelled and every server has listed its tools
Spec == Init /\ [][Next]_vars

\* the server with overlapping requests
SpecServer == InitServer /\ [][NextServer]_vars

\* the sessions of Spec after a start-up in which ListTools may have failed
SpecStartup == InitStartup /\ [][Next]_vars

\* the interactive session whose context may be cancelled
SpecCancel == InitCancel /\ [][NextCancel]_vars

\* every provider call and every tool call returns, and runPrompt goes on to
\* its next statement: lines 283-290 (CreateMessage), 396-404 (CallTool),
\* 456-474 (the appends and the return)
Fairness ==
    /\ WF_vars(ProviderFailed(1) \/ ProviderReplied(1))
    /\ WF_vars(ToolLoopStep(1))
    /\ WF_vars(Finish)

\* the interactive session in which every call returns and the context is not
\* cancelled
SpecLive == InitLive /\ [][NextLive]_vars /\ Fairness

(***************************************************************************)
(* Helpers of the properties.                                              *)
(***************************************************************************)
Positions(msgs) ==
    UNION {{<<i, j>> : j \in DOMAIN msgs[i].content} : i \in DOMAIN msgs}

BlockAt(msgs, p) == msgs[p[1]].content[p[2]]

\* every tool_result answers a tool_use of an earlier turn, and no tool_use has
\* two tool_results
PairedInOrder(msgs) ==
    /\ \A p \in Positions(msgs) :
         BlockAt(msgs, p).type = "tool_result" =>
            \E q \in Positions(msgs) :
               /\ q[1] < p[1]
               /\ BlockAt(msgs, q).type = "tool_use"
               /\ BlockAt(msgs, q).id = BlockAt(msgs, p).toolUseID
    /\ \A p \in Positions(msgs) :
         BlockAt(msgs, p).type = "tool_use" =>
            Cardinality({q \in Positions(msgs) :
                /\ BlockAt(msgs, q).type = "tool_result"
                /\ BlockAt(msgs, q).toolUseID = BlockAt(msgs, p).id}) <= 1

\* C2: in every transcript of an interactive session (runPrompt, with
\* pruneMessages between the turns), every tool_result has the ID of a tool_use
\* of an earlier turn and every tool_use has no tool_result or exactly one.
C2_Pairing == mode = "interactive" => PairedInOrder(messages)

\* the second turn of a session: the prune before it cut the first user turn
\* off and kept a tool_use with its tool_result
C2_Witness ==
    /\ mode = "interactive" /\ turns >= 2
    /\ messages # <<>> /\ messages[1].role = "assistant"
    /\ \E p \in Positions(messages) :
         /\ BlockAt(messages, p).type = "tool_result"
         /\ \E i \in DOMAIN messages : i > p[1] /\ messages[i].role = "user"

\* C3: requests served at the same time never leave a tool_result without its
\* tool_use in the transcript (no append of one request is lost to another).
C3_ServerPairing == InServer(mode) => PairedInOrder(messages)

IsCall(e, res) == e.ev = "call" /\ e.res = res

CountOf(l, Test(_)) == Cardinality({i \in DOMAIN l : Test(l[i])})

Overloads(l) == LET t(e) == IsCall(e, "overloaded") IN CountOf(l, t)

SleepsOf(l) ==
    LET t(e) == e.ev = "sleep"
        sl == SelectSeq(l, t)
    IN  [k \in DOMAIN sl |-> sl[k].arg]

RECURSIVE Pow2(_)
Pow2(n) == IF n = 0 THEN 1 ELSE 2 * Pow2(n - 1)

Min(a, b) == IF a < b THEN a ELSE b

\* C4: in a round of runPrompt the delays slept after overload failures start at
\* initialBackoff, double after each failure, are non-decreasing and never above
\* maxBackoff; nothing is slept before the first call; after maxRetries retries
\* the next overload failure returns the terminal error, so a round makes at
\* most maxRetries + 1 provider calls.
C4_Backoff ==
    mode = "interactive" =>
        LET l == log[1]
            sl == SleepsOf(l)
            anyCall(e) == e.ev = "call"
        IN  /\ \A k \in DOMAIN sl : sl[k] = Min(initialBackoff * Pow2(k - 1), maxBackoff)
            /\ \A k \in DOMAIN sl : sl[k] <= maxBackoff /\ (k > 1 => sl[k - 1] <= sl[k])
            /\ backoff[1] <= maxBackoff
            /\ Len(sl) <= maxRetries
            /\ CountOf(l, anyCall) <= maxRetries + 1
            /\ l # <<>> => l[1].ev = "call"
            /\ \A i \in DOMAIN l :
                 l[i].ev = "sleep" => i > 1 /\ IsCall(l[i - 1], "overloaded")
            /\ Overloads(l) = maxRetries + 1 =>
                 /\ pc[1] = "ret" /\ ret[1].err = OverloadedMsg
                 /\ l[Len(l)].ev = "call"
            /\ (pc[1] = "ret" /\ ret[1].err = OverloadedMsg) =>
                 Overloads(l) = maxRetries + 1

\* the provider was overloaded six times in a round: five sleeps, then the error
C4_Witness ==
    /\ mode = "interactive" /\ pc[1] = "ret" /\ ret[1].err = OverloadedMsg
    /\ SleepsOf(log[1]) = <<1, 2, 4, 8, 16>>

\* C5: in both handlers an overload error of the provider is returned to the
\* caller only when the retry limit is exhausted.
C5_OverloadRetried ==
    \A h \in Handlers :
        (pc[h] = "ret" /\ log[h] # <<>> /\ IsCall(log[h][Len(log[h])], "overloaded")) =>
            Overloads(log[h]) = maxRetries + 1

\* C6: in both handlers a provider error other than overload ends the round: it
\* is the last thing the round did (no sleep, no further provider call, no tool
\* call) and the handler has returned that error, whatever retries came before.
C6_FatalNotRetried ==
    \A h \in Handlers : \A i \in DOMAIN log[h] :
        IsCall(log[h][i], "fatal") =>
            /\ i = Len(log[h])
            /\ pc[h] = "ret"
            /\ ret[h].err \in {e.text : e \in {f \in ProviderErrors : f.class = "fatal"}}
            /\ \A j \in DOMAIN log[h] : log[h][j].ev \notin {"tool", "skip"}
            /\ \A j \in DOMAIN log[h] : IsCall(log[h][j], "fatal") => j = i
            /\ toolResults[h] = <<>> /\ messageContent[h] = <<>>

\* runPrompt returns a fatal error that came after two overload retries
C6_Witness ==
    /\ mode = "interactive" /\ pc[1] = "ret"
    /\ Len(SleepsOf(log[1])) = 2
    /\ IsCall(log[1][Len(log[1])], "fatal")
    /\ ret[1].err = <<"401 ", "authentication_error">>

ToolFree(l) == \E i \in DOMAIN l : IsCall(l[i], "ok") /\ l[i].arg = 0

\* C7: in both handlers, once the provider has replied with zero invocations
\* the round makes no tool call and no further provider call, that reply is the
\* only successful provider call of the round, and no further round is entered:
\* the handler returns.
C7_ToolFreeEnds ==
    [][\A h \in Handlers :
         /\ ToolFree(log[h]) =>
              \/ log'[h] = log[h]
              \/ log'[h] = <<>> /\ pc'[h] \notin {"call", "tools"}
         /\ ToolFree(log'[h]) =>
              LET l == log'[h]
                  ok(e) == IsCall(e, "ok")
                  tool(e) == e.ev \in {"tool", "skip"}
              IN  /\ IsCall(l[Len(l)], "ok")
                  /\ CountOf(l, ok) = 1
                  /\ CountOf(l, tool) = 0
                  /\ pc'[h] \in {"tools", "append", "store", "ret"}
                  /\ toolResults'[h] = <<>>]_vars

\* the first reply of a turn of runPrompt had no invocation: the turn is over
\* after one provider call and no tool call
C7_Witness ==
    /\ mode = "interactive" /\ pc[1] = "ret" /\ ret[1].err = <<>>
    /\ round[1] = 1
    /\ log[1] = <<Event("call", "ok", 0)>>

\* C8 as stated: a turn of runPrompt completes successfully only on a provider
\* reply that requested zero invocations.
C8_EndsOnlyOnToolFreeReply ==
    (mode = "interactive" /\ pc[1] = "ret" /\ ret[1].err = <<>>) => ToolFree(log[1])

\* C8 as amended: when the loop over the invocations of a reply is over,
\* runPrompt calls the provider again, with an empty prompt, exactly when the
\* round produced at least one tool result; with no result it returns nil, so a
\* turn completes successfully only on a round without results.
C8_RecursesOnResults ==
    [][mode = "interactive" =>
         /\ (pc[1] = "tools" /\ pc'[1] # "tools") =>
              IF toolResults[1] # <<>>
              THEN /\ pc'[1] = "call" /\ prompt'[1] = <<>>
                   /\ round'[1] = round[1] + 1
              ELSE pc'[1] = "ret" /\ ret'[1].err = <<>>
         /\ (pc'[1] = "ret" /\ ret'[1].err = <<>>) => toolResults'[1] = <<>>
         /\ round'[1] > 1 => prompt'[1] = <<>>]_vars

\* a round of runPrompt produced a result and the provider is called again
C8_Witness ==
    /\ mode = "interactive" /\ pc[1] = "call" /\ round[1] = 2 /\ prompt[1] = <<>>
    /\ messages[Len(messages)].role = "tool"

ErrIDs(l) == {l[i].arg : i \in {j \in DOMAIN l : l[j].ev = "tool" /\ l[j].res = "error"}}

ResultsFor(results, id) == {k \in DOMAIN results : results[k].toolUseID = id}

\* the segment is a tool_result for id whose content is one text item with the
\* error message of the call
IsErrorResult(b, id) ==
    /\ b.type = "tool_result" /\ b.toolUseID = id
    /\ Len(b.content) = 1 /\ b.content[1].type = "text"
    /\ b.content[1].text[1] = "Error calling tool "
    /\ \E i \in DOMAIN b.content[1].text : b.content[1].text[i] = "network"

\* the turns of the transcript that hold a tool_result for id
TurnsFor(msgs, id) ==
    {i \in DOMAIN msgs : \E j \in DOMAIN msgs[i].content :
        msgs[i].content[j].type = "tool_result" /\ msgs[i].content[j].toolUseID = id}

\* C9: in both handlers, when CallTool returns an error for an invocation the
\* round goes on and does not return; the round keeps exactly one tool_result
\* for the invocation, with its ID and the error message as its text content;
\* at the end of the round exactly one tool turn with that single segment is in
\* the transcript and the provider is called again with an empty prompt.
C9_ToolErrorRecovered ==
    [][\A h \in Handlers :
         /\ \A id \in ErrIDs(log'[h]) :
              /\ Cardinality(ResultsFor(toolResults'[h], id)) = 1
              /\ \A k \in ResultsFor(toolResults'[h], id) :
                   IsErrorResult(toolResults'[h][k], id)
              /\ pc'[h] # "ret"
         /\ \A id \in ErrIDs(log[h]) :
              log'[h] = <<>> =>
                 /\ pc'[h] = "call" /\ prompt'[h] = <<>>
                 /\ round'[h] = round[h] + 1
                 /\ Cardinality(TurnsFor(messages', id)) = 1
                 /\ \A i \in TurnsFor(messages', id) :
                      /\ messages'[i].role = "tool"
                      /\ Len(messages'[i].content) = 1
                      /\ IsErrorResult(messages'[i].content[1], id)]_vars

\* a tool call failed, its tool turn is the last of the transcript and the
\* provider is about to be called again
C9_Witness ==
    \E h \in Handlers :
        /\ pc[h] = "call" /\ round[h] = 2
        /\ messages # <<>>
        /\ messages[Len(messages)].role = "tool"
        /\ \E id \in 1..MaxIDs : IsErrorResult(messages[Len(messages)].content[1], id)

\* the tool calls the loop of handler h has been through
Dispatched(h) == {k \in DOMAIN message[h].toolCalls : k < idx[h]}

\* a tool call the loop cannot dispatch: malformed name, unknown server,
\* arguments that do not parse
Undispatchable(tc) ==
    \/ tc.name = <<"notaqualifiedname">>
    \/ tc.name = <<"x", "__", "t">>
    \/ tc.args = "unsupported"

\* C10 as stated: every tool dispatch error (malformed name, unknown server,
\* unparsable arguments, failed call) is synthesized into a tool_result segment
\* for that invocation.
C10_AllErrorsSynthesized ==
    \A h \in Handlers : \A k \in Dispatched(h) :
        LET tc == message[h].toolCalls[k]
        IN  (Undispatchable(tc) \/ tc.id \in ErrIDs(log[h])) =>
                ResultsFor(toolResults[h], tc.id) # {}

\* C10 as amended: a failed tool call is synthesized into one tool_result segment
\* carrying the error text; a malformed name, an unknown server and unparsable
\* arguments are skipped without a tool call and without a result segment; in
\* none of the four cases does the handler return an error.
C10_DispatchErrors ==
    \A h \in Handlers :
        /\ \A k \in Dispatched(h) :
             LET tc == message[h].toolCalls[k]
             IN  /\ Undispatchable(tc) =>
                      /\ ResultsFor(toolResults[h], tc.id) = {}
                      /\ \A i \in DOMAIN log[h] :
                           log[h][i].arg = tc.id => log[h][i].ev # "tool"
                 /\ tc.id \in ErrIDs(log[h]) =>
                      /\ Cardinality(ResultsFor(toolResults[h], tc.id)) = 1
                      /\ \A r \in ResultsFor(toolResults[h], tc.id) :
                           IsErrorResult(toolResults[h][r], tc.id)
        /\ (pc[h] = "ret" /\ Dispatched(h) # {}) => ret[h].err = <<>>
        /\ \A k \in Dispatched(h) :
             \E i \in DOMAIN messageContent[h] :
                /\ messageContent[h][i].type = "tool_use"
                /\ messageContent[h][i].id = message[h].toolCalls[k].id

\* a reply asked for a tool of an unknown server and for a tool whose call
\* failed: one result, for the second
C10_Witness ==
    \E h \in Handlers :
        /\ pc[h] = "tools" /\ idx[h] = 3
        /\ message[h].toolCalls[1].name = <<"x", "__", "t">>
        /\ message[h].toolCalls[2].id \in ErrIDs(log[h])
        /\ Len(toolResults[h]) = 1

\* the tool calls and the skips of a round, in the order they happened
ToolEvents(l) == LET t(e) == e.ev \in {"tool", "skip"} IN SelectSeq(l, t)

\* a name that is not server__tool
Malformed(tc) == tc.name = <<"notaqualifiedname">>

\* a name of the form server__tool, of a configured server, with arguments that parse
WellFormed(tc) == tc.name = <<"s", "__", "t">> /\ tc.args = "object"

\* C11: in both handlers an invocation whose name does not split into exactly
\* two parts is skipped: no tool call is made for it and no result is kept for
\* it; the handler does not return an error because of it; the loop goes
\* through the invocations of the reply in request order and every well-formed
\* one, before or after the malformed one, is called.
C11_MalformedSkipped ==
    \A h \in Handlers :
        LET te == ToolEvents(log[h])
        IN  /\ Len(te) = Cardinality(Dispatched(h))
            /\ \A k \in Dispatched(h) :
                 LET tc == message[h].toolCalls[k]
                 IN  /\ te[k].arg = tc.id
                     /\ Malformed(tc) =>
                          /\ te[k] = Event("skip", "malformed", tc.id)
                          /\ ResultsFor(toolResults[h], tc.id) = {}
                     /\ WellFormed(tc) => te[k].ev = "tool"
            /\ (pc[h] = "ret" /\ \E k \in Dispatched(h) : Malformed(message[h].toolCalls[k]))
                  => ret[h].err = <<>>
            /\ (pc[h] = "tools" /\ idx[h] <= Len(message[h].toolCalls)) => ENABLED ToolLoopStep(h)

\* the first invocation of a reply had a malformed name, the second was called
C11_Witness ==
    \E h \in Handlers :
        /\ pc[h] = "tools" /\ idx[h] = 3
        /\ Malformed(message[h].toolCalls[1])
        /\ WellFormed(message[h].toolCalls[2])
        /\ ToolEvents(log[h])[1].ev = "skip"
        /\ ToolEvents(log[h])[2] = Event("tool", "ok", message[h].toolCalls[2].id)

\* the user turn of prompt p
UserTurn(p) == HistoryMessage("user", <<TextBlock(p)>>)

\* C12: in both handlers, from the provider call on and up to the return of the
\* handler, the transcript holds a user turn whose only segment is the text of
\* the non-empty prompt the handler was called with.
C12_UserTurnAppended ==
    \A h \in Handlers :
        (pc[h] \in {"call", "tools", "append", "store", "ret"} /\ prompt[h] # <<>>) =>
            \E i \in DOMAIN messages : messages[i] = UserTurn(prompt[h])

\* C13: when runPromptNonInteractive returns a text without error, the text is
\* that of the last provider reply and every invocation that reply requested
\* has been through the dispatch loop: no invocation is pending.
C13_LastTextReturned ==
    \A h \in Handlers :
        (InServer(mode) /\ pc[h] = "ret" /\ ret[h].err = <<>>) =>
            /\ ret[h].text = message[h].text
            /\ \A k \in DOMAIN message[h].toolCalls : k \in Dispatched(h)

\* C14: pruning what pruneMessages returned, with the same window, changes
\* nothing: prune(prune(T, W), W) = prune(T, W) for every transcript T and
\* every window W.
C14_Idempotent ==
    pruned.done => pruneMessages(pruned.out, messageWindow) = pruned.out

\* a transcript above the window from which the first prune has removed a
\* segment and kept at least one turn
C14_Witness ==
    /\ pruned.done
    /\ Len(pruned.input) > messageWindow
    /\ pruned.out # <<>>
    /\ pruned.out # Window(pruned.input, messageWindow)

\* C15: a transcript of at most messageWindow turns comes back from
\* pruneMessages as it went in: same turns, same segments, same order.
C15_NoOpAtOrBelowWindow ==
    (pruned.done /\ Len(pruned.input) <= messageWindow) => pruned.out = pruned.input

\* a transcript of exactly messageWindow turns with a tool_use that has no
\* tool_result: it is returned with it
C15_Witness ==
    /\ pruned.done
    /\ messageWindow > 0 /\ Len(pruned.input) = messageWindow
    /\ ~Paired(pruned.input)
    /\ pruned.out = pruned.input

\* the round of runPrompt has ended on a failed provider call
Aborted(l) == l # <<>> /\ l[Len(l)].ev = "call" /\ l[Len(l)].res # "ok"

\* C16: when a provider call of runPrompt fails with an error that ends the turn
\* (an error that is not overload, overload after the last retry, a cancelled
\* context), the step that returns the error leaves the transcript as it was
\* before the call, and no overload retry touches it either: the transcript
\* ends with the user turn of the prompt in the first round and with the last
\* tool turn of the round before in a later round.
C16_NoPartialTurn ==
    [][/\ (pc[1] = "call" /\ pc'[1] \in {"call", "ret"}) => messages' = messages
       /\ (pc'[1] = "ret" /\ Aborted(log'[1])) =>
            /\ ret'[1].err # <<>>
            /\ messages' # <<>>
            /\ LET last == messages'[Len(messages')]
               IN  IF round'[1] = 1
                   THEN last = UserTurn(prompt'[1])
                   ELSE last.role = "tool"]_vars

\* the context was cancelled in the second round of a turn: the error is
\* returned and the transcript ends with the tool turn of the first round
C16_Witness ==
    /\ pc[1] = "ret" /\ cancelled
    /\ ret[1].err = ContextCanceled
    /\ round[1] = 2
    /\ Aborted(log[1])
    /\ messages[Len(messages)].role = "tool"
    /\ \E i \in DOMAIN messages : messages[i].role = "assistant"

\* the number of tool calls a round has made
ToolCallCount(l) == LET t(e) == e.ev = "tool" IN CountOf(l, t)

\* C17: once the session's context is cancelled no tool call runs to its end:
\* a call made after the cancellation is given a context the cancellation
\* reaches, so it comes back with the context's error and never with a result.
C17_CancelReachesToolCalls ==
    [][\A h \in Handlers :
         (cancelled /\ ToolCallCount(log'[h]) > ToolCallCount(log[h])) =>
            /\ log'[h][Len(log'[h])].res = "error"
            /\ \E k \in DOMAIN toolResults'[h] : k > Len(toolResults[h])
            /\ \A k \in DOMAIN toolResults'[h] :
                 k > Len(toolResults[h]) =>
                    \E i \in DOMAIN toolResults'[h][k].content[1].text :
                       toolResults'[h][k].content[1].text[i] = "context canceled"]_vars

\* the server a qualified name points to
ServerOf(tc) ==
    IF Len(tc.name) = 3 /\ tc.name[2] = "__" THEN <<tc.name[1]>> ELSE <<>>

\* the configured servers that have no tool in the catalog: their ListTools failed
Excluded == {server \in mcpClients : ServerTools(server) \cap allTools = {}}

\* C18: a server whose catalog listing failed at start-up is out of the
\* registry: for the rest of the session no invocation is resolved to it and
\* no tool call is made on it.
C18_ExcludedServerNotCalled ==
    \A h \in Handlers : \A k \in Dispatched(h) :
        LET tc == message[h].toolCalls[k]
        IN  ServerOf(tc) \in Excluded =>
                \A i \in DOMAIN log[h] : log[h][i].arg = tc.id => log[h][i].ev # "tool"

\* the assistant turn of a reply: its text if it has one, then one tool_use per
\* tool call, in request order
AssistantTurnOf(msg) ==
    HistoryMessage("assistant",
        (IF msg.text # <<>> THEN <<TextBlock(msg.text)>> ELSE <<>>)
        \o [k \in DOMAIN msg.toolCalls |->
               ToolUseBlock(msg.toolCalls[k].id, msg.toolCalls[k].name,
                            jsonMarshal(msg.toolCalls[k].args))])

\* one tool turn per result, each with that result only
ToolTurnsOf(results) == [k \in DOMAIN results |-> HistoryMessage("tool", <<results[k]>>)]

Suffix(msgs, n) == SubSeq(msgs, Len(msgs) - n + 1, Len(msgs))

\* the results answer the invocations in request order
InRequestOrder(msg, results) ==
    \A a, b \in DOMAIN results :
        a < b => \E i, j \in DOMAIN msg.toolCalls :
                    /\ i < j
                    /\ msg.toolCalls[i].id = results[a].toolUseID
                    /\ msg.toolCalls[j].id = results[b].toolUseID

\* C19: in both handlers, when a round that got a reply from the provider is
\* over (the handler returns without error or calls the provider again), the
\* transcript ends with the assistant turn of the reply followed by one tool
\* turn per result of the round, in the order of the invocations.
C19_RoundShape ==
    [][\A h \in Handlers :
         (/\ pc[h] \in {"call", "tools", "store"}
          /\ \/ pc'[h] = "ret" /\ ret'[h].err = <<>>
             \/ pc'[h] = "call" /\ round'[h] = round[h] + 1) =>
            LET msg == IF pc[h] = "call" THEN message'[h] ELSE message[h]
                results == IF pc[h] = "call" THEN <<>> ELSE toolResults[h]
                exp == <<AssistantTurnOf(msg)>> \o ToolTurnsOf(results)
            IN  /\ Len(messages') >= Len(exp)
                /\ Suffix(messages', Len(exp)) = exp
                /\ InRequestOrder(msg, results)]_vars

\* the segments of a turn that are not orphaned within the turns kept: the
\* text segments, the tool_use segments with a tool_result among kept, the
\* tool_result segments with a tool_use among kept
Remaining(msg, kept) ==
    LET stays(b) ==
            \/ b.type = "text"
            \/ /\ b.type = "tool_use"
               /\ \E c \in BlocksOf(kept) : c.type = "tool_result" /\ c.toolUseID = b.id
            \/ /\ b.type = "tool_result"
               /\ \E c \in BlocksOf(kept) : c.type = "tool_use" /\ c.id = b.toolUseID
    IN  SelectSeq(msg.content, stays)

\* the n-th smallest element of a set of indices
Nth(I, n) == CHOOSE i \in I : Cardinality({j \in I : j < i}) = n - 1

\* the turns of kept with an index in I, in order, with their remaining segments
TurnsAt(kept, I) ==
    [n \in 1..Cardinality(I) |->
        HistoryMessage(kept[Nth(I, n)].role, Remaining(kept[Nth(I, n)], kept))]

C21_Terminates ==
    /\ (pc[1] = "tools" /\ ToolFree(log[1])) ~> (pc[1] = "ret" /\ ret[1].err = <<>>)
    /\ (pc[1] = "call") ~> (pc[1] # "call")
    /\ [][/\ ToolFree(log[1]) => pc'[1] # "call"
          /\ Overloads(log'[1]) <= maxRetries + 1]_vars

\* a turn that slept on an overload in its second round and then got a reply
\* without invocations: it has finished
C21_Witness ==
    /\ pc[1] = "ret" /\ ret[1].err = <<>>
    /\ round[1] = 2
    /\ ToolFree(log[1])
    /\ Len(SleepsOf(log[1])) >= 1

\* a is b with some elements left out (the first match is as good as any)
RECURSIVE IsSubSeq(_, _)
IsSubSeq(a, b) ==
    IF a = <<>> THEN TRUE
    ELSE IF b = <<>> THEN FALSE
    ELSE IF Head(a) = Head(b) THEN IsSubSeq(Tail(a), Tail(b))
    ELSE IsSubSeq(a, Tail(b))

TextsOf(content) == LET t(b) == b.type = "text" IN SelectSeq(content, t)

\* the last w turns of a transcript, all of them if it has no more than w
LastTurns(msgs, w) ==
    IF Len(msgs) <= w THEN msgs ELSE [k \in 1..w |-> msgs[Len(msgs) - w + k]]

\* turn a is turn b with tool segments left out, and nothing else
IsPrunedTurn(a, b) ==
    /\ a.role = b.role
    /\ IsSubSeq(a.content, b.content)
    /\ TextsOf(a.content) = TextsOf(b.content)

\* the turns of a are turns of b, in their order, each with tool segments left
\* out and nothing else
RECURSIVE ArePrunedTurns(_, _)
ArePrunedTurns(a, b) ==
    IF a = <<>> THEN TRUE
    ELSE IF b = <<>> THEN FALSE
    ELSE IF IsPrunedTurn(Head(a), Head(b)) THEN ArePrunedTurns(Tail(a), Tail(b))
    ELSE ArePrunedTurns(a, Tail(b))

\* C22: for every transcript and every window W >= 0, pruneMessages returns at
\* most W turns; they are turns of the last W turns of the transcript, in
\* their order; each of them has all the text segments it had, in their
\* order, and has lost tool_use and tool_result segments only.
C22_WindowBound ==
    pruned.done =>
        LET last == LastTurns(pruned.input, messageWindow)
        IN  /\ messageWindow >= 0
            /\ Len(pruned.out) <= messageWindow
            /\ ArePrunedTurns(pruned.out, last)

\* a transcript above the window of which one turn was dropped and another
\* kept its text and lost a tool segment
C22_Witness ==
    /\ pruned.done /\ Len(pruned.input) > messageWindow
    /\ Len(pruned.out) = 1 /\ messageWindow = 2
    /\ \E i \in DOMAIN pruned.input :
         /\ i > Len(pruned.input) - messageWindow
         /\ pruned.input[i].role = "assistant"
         /\ Len(pruned.input[i].content) = 2
         /\ pruned.out[1].role = "assistant"
         /\ pruned.out[1].content = TextsOf(pruned.input[i].content)
         /\ Len(pruned.out[1].content) = 1

====
